---- MODULE Spec2Model ----
(***************************************************************************)
(* Model of cmake/sandbox_wrapper.py: the Landlock sandbox wrapper that    *)
(* accumulates filesystem rules, commits them and execs a delegate.        *)
(*                                                                         *)
(* A Python str is modelled as a sequence of symbols.  A symbol is either  *)
(* a single character (":", "/", ".", "a", "T", ...) or a whole path       *)
(* component that is never split ("usr", "tmp", ...).                      *)
(***************************************************************************)
EXTENDS Integers, Sequences, FiniteSets, TLC

VARIABLES
    fs,          \* filesystem state: the set of paths that exist
    pathEnv,     \* os.environ restricted to the three LANDLOCK_SANDBOX_* path lists
    debugEnv,    \* per run: os.environ restricted to LANDLOCK_SANDBOX_DEBUG
    argv,        \* sys.argv (argv[1] is the wrapper's own name)
    kernelOk,    \* whether the kernel accepts the ruleset at rules.apply()
    progFound,   \* whether os.execvp can locate and execute sys.argv[1]
    pc,          \* per run: position in the __main__ block
    debug,       \* per run: the parsed debug flag
    rules,       \* per run: the landlock.Ruleset being accumulated
    stderr,      \* per run: lines written to sys.stderr
    sandbox,     \* per run: process-global sandbox state
    applyCalls,  \* per run: number of calls of rules.apply()
    exitStatus,  \* per run: exit status, meaningful once pc = "exited"
    execd,       \* per run: <<file, args>> handed to os.execvp, <<>> before
    sourceEnd,   \* per run: history, len(rules) after each add_rules call of __main__
    pvEnviron,   \* read_paths_envvar harness: the environment it reads
    pvResult,    \* read_paths_envvar harness: the list it returned
    pvPc         \* read_paths_envvar harness: "input" or "read"

vars == <<fs, pathEnv, debugEnv, argv, kernelOk, progFound, pc, debug, rules,
          stderr, sandbox, applyCalls, exitStatus, execd, sourceEnd,
          pvEnviron, pvResult, pvPc>>

inputVars == <<fs, pathEnv, debugEnv, argv, kernelOk, progFound>>
runVars == <<pc, debug, rules, stderr, sandbox, applyCalls, exitStatus, execd, sourceEnd>>
pvVars == <<pvEnviron, pvResult, pvPc>>

\* Two runs of the wrapper, one after the other, on the same filesystem,
\* path lists, argument vector and kernel: each is a process of its own.
Runs == {"first", "second"}

----------------------------------------------------------------------------
(* Bounds *)

\* longest environment value tried on read_paths_envvar
MaxLen == 4

\* largest number of trailing command-line arguments
MaxArgs == 2

----------------------------------------------------------------------------
(* Python str and pathlib helpers *)

\* index of the first occurrence of c in s at or after i, 0 when there is none
RECURSIVE Find(_, _, _)
Find(s, c, i) ==
    IF i > Len(s) THEN 0
    ELSE IF s[i] = c THEN i
    ELSE Find(s, c, i + 1)

\* str.split(sep): n separators give n+1 pieces, empty pieces included
RECURSIVE Split(_, _)
Split(s, sep) ==
    LET i == Find(s, sep, 1) IN
    IF i = 0 THEN <<s>>
    ELSE <<SubSeq(s, 1, i - 1)>> \o Split(SubSeq(s, i + 1, Len(s)), sep)

\* sep.join(parts)
RECURSIVE Join(_, _)
Join(parts, sep) ==
    IF parts = <<>> THEN <<>>
    ELSE IF Len(parts) = 1 THEN parts[1]
    ELSE parts[1] \o <<sep>> \o Join(Tail(parts), sep)

\* the pieces of a sequence of pieces that are kept as path components
RECURSIVE Components(_)
Components(pieces) ==
    IF pieces = <<>> THEN <<>>
    ELSE IF pieces[1] = <<>> \/ pieces[1] = <<".">>
         THEN Components(Tail(pieces))
         ELSE <<pieces[1]>> \o Components(Tail(pieces))

\* the root pathlib keeps: "//" for exactly two leading slashes, else "/" or ""
Root(s) ==
    IF Len(s) >= 1 /\ s[1] = "/"
    THEN IF Len(s) >= 2 /\ s[2] = "/" /\ ~(Len(s) >= 3 /\ s[3] = "/")
         THEN <<"/", "/">>
         ELSE <<"/">>
    ELSE <<>>

\* str(Path(s)): pathlib's normal form of s on POSIX
PathOf(s) ==
    LET p == Root(s) \o Join(Components(Split(s, "/")), "/") IN
    IF p = <<>> THEN <<".">> ELSE p

\* os.environ.get(name, default=default)
EnvironGet(env, name, default) ==
    IF name \in DOMAIN env THEN env[name] ELSE default

read_paths_envvar(env, name) ==
    LET env_var == EnvironGet(env, name, <<>>) IN
    IF env_var = <<>> THEN <<>>
    ELSE LET paths == Split(env_var, ":") IN
         [i \in 1..Len(paths) |-> PathOf(paths[i])]

----------------------------------------------------------------------------
(* read_paths_envvar on every environment value up to MaxLen *)

PathChars == {"a", "/", ":"}

Strings(n) == UNION {[1..k -> PathChars] : k \in 0..n}

PvName == "LANDLOCK_SANDBOX_RO_PATHS"

PvEnvirons == {<<>>} \cup {(PvName :> s) : s \in Strings(MaxLen)}

InitPaths ==
    /\ fs = {}
    /\ pathEnv = <<>>
    /\ debugEnv = [r \in Runs |-> <<>>]
    /\ argv = <<"wrapper">>
    /\ kernelOk = TRUE
    /\ progFound = TRUE
    /\ pc = [r \in Runs |-> "start"]
    /\ debug = [r \in Runs |-> FALSE]
    /\ rules = [r \in Runs |-> <<>>]
    /\ stderr = [r \in Runs |-> <<>>]
    /\ sandbox = [r \in Runs |-> "Uncommitted"]
    /\ applyCalls = [r \in Runs |-> 0]
    /\ exitStatus = [r \in Runs |-> 0]
    /\ execd = [r \in Runs |-> <<>>]
    /\ sourceEnd = [r \in Runs |-> <<>>]
    /\ pvEnviron \in PvEnvirons
    /\ pvResult = <<>>
    /\ pvPc = "input"

\* one call of read_paths_envvar
ReadPaths ==
    /\ pvPc = "input"
    /\ pvResult' = read_paths_envvar(pvEnviron, PvName)
    /\ pvPc' = "read"
    /\ UNCHANGED <<inputVars, runVars, pvEnviron>>

NextPaths == ReadPaths

SpecPaths == InitPaths /\ [][NextPaths]_vars

----------------------------------------------------------------------------
(* landlock.FSAccess and landlock.Ruleset, as the specification describes  *)
(* them: the module is imported by the wrapper but is not part of it       *)

Rights == {"read", "write", "execute", "list", "create", "delete"}

FSAccess_readonly == {"read", "list", "execute"}

FSAccess_all == Rights

\* the directory-only modifier
FSAccess_all_dir == {"list", "create", "delete"}

\* landlock.Ruleset()
Ruleset == <<>>

\* Ruleset.apply() fails fatally, by raising, when the kernel refuses the ruleset
ApplyRaises == ~kernelOk

\* Ruleset.allow(path, rules=access): append one rule
Allow(rs, path, access) == Append(rs, [path |-> path, access |-> access])

----------------------------------------------------------------------------
(* Module constants *)

USR == <<"/", "usr">>
BIN == <<"/", "bin">>
VAR == <<"/", "var">>
LIB == <<"/", "lib">>
LIB32 == <<"/", "lib32">>
LIB64 == <<"/", "lib64">>
TMP == <<"/", "tmp">>

READONLY_GLOBAL_PATHS == {USR, BIN, VAR, LIB, LIB32, LIB64}

READWRITE_GLOBAL_PATHS == {TMP}

\* A Python set iterates in an order that depends on the process's hash seed.
\* Two orders of the read-only set are modelled: as written, and reversed.
ReadonlyGlobalOrders ==
    {<<USR, BIN, VAR, LIB, LIB32, LIB64>>, <<LIB64, LIB32, LIB, VAR, BIN, USR>>}

ReadwriteGlobalOrders == {<<TMP>>}

----------------------------------------------------------------------------
(* add_rules *)

\* mutant: the existence check is dropped, every candidate is allowed
AddRule_noSkip(acc, path, access, dbg) ==
    [rules |-> Allow(acc.rules, path, access),
     err |-> IF dbg THEN Append(acc.err, <<"allowing", path, access>>)
                    ELSE acc.err]

\* mutant: a path that already has a rule is not given a second one
AddRule_dedup(acc, path, access, dbg) ==
    IF path \notin fs \/ \E i \in 1..Len(acc.rules) : acc.rules[i].path = path
    THEN [rules |-> acc.rules,
          err |-> IF dbg THEN Append(acc.err, <<"skipping", path, access>>)
                         ELSE acc.err]
    ELSE [rules |-> Allow(acc.rules, path, access),
          err |-> IF dbg THEN Append(acc.err, <<"allowing", path, access>>)
                         ELSE acc.err]

\* mutant: under debug the skip message is printed but the loop does not
\* continue, so the missing path is allowed too
AddRule_debugNoContinue(acc, path, access, dbg) ==
    IF path \notin fs /\ ~dbg
    THEN acc
    ELSE [rules |-> Allow(acc.rules, path, access),
          err |-> IF ~dbg THEN acc.err
                  ELSE IF path \notin fs
                       THEN acc.err \o <<<<"skipping", path, access>>,
                                         <<"allowing", path, access>>>>
                       ELSE Append(acc.err, <<"allowing", path, access>>)]

\* one iteration of the loop of add_rules; acc is [rules, err], err being
\* what the call has written to sys.stderr
AddRule(acc, path, access, dbg) ==
    IF path \notin fs
    THEN [rules |-> acc.rules,
          err |-> IF dbg THEN Append(acc.err, <<"skipping", path, access>>)
                         ELSE acc.err]
    ELSE [rules |-> Allow(acc.rules, path, access),
          err |-> IF dbg THEN Append(acc.err, <<"allowing", path, access>>)
                         ELSE acc.err]

RECURSIVE AddRulesFrom(_, _, _, _)
AddRulesFrom(acc, paths, access, dbg) ==
    IF paths = <<>> THEN acc
    ELSE AddRulesFrom(AddRule(acc, Head(paths), access, dbg), Tail(paths), access, dbg)

\* add_rules(rules, paths, access, debug), writing to the stderr given
AddRules(rs, paths, access, dbg, err) ==
    AddRulesFrom([rules |-> rs, err |-> err], paths, access, dbg)

----------------------------------------------------------------------------
(* The __main__ block *)

Terminal == {"exited", "delegate"}

DebugName == "LANDLOCK_SANDBOX_DEBUG"

ToLower == ("T" :> "t") @@ ("Y" :> "y") @@ ("N" :> "n")

\* str.lower()
Lower(s) == [i \in 1..Len(s) |-> IF s[i] \in DOMAIN ToLower THEN ToLower[s[i]] ELSE s[i]]

TrueTokens == {<<"t", "r", "u", "e">>, <<"1">>, <<"t">>, <<"y">>, <<"y", "e", "s">>}

\* mutant: the directory modifier is put on the readonly-paths list instead
\* of the readonly-directories list
AccessOf_swapped(src) ==
    CASE src = "READONLY_GLOBAL_PATHS" -> FSAccess_readonly
      [] src = "READWRITE_GLOBAL_PATHS" -> FSAccess_all
      [] src = "LANDLOCK_SANDBOX_RO_DIRS" -> FSAccess_readonly
      [] src = "LANDLOCK_SANDBOX_RO_PATHS" -> FSAccess_readonly \cap FSAccess_all_dir
      [] src = "LANDLOCK_SANDBOX_RW_PATHS" -> FSAccess_all

\* the access each add_rules call of __main__ passes
AccessOf(src) ==
    CASE src = "READONLY_GLOBAL_PATHS" -> FSAccess_readonly
      [] src = "READWRITE_GLOBAL_PATHS" -> FSAccess_all
      [] src = "LANDLOCK_SANDBOX_RO_DIRS" -> FSAccess_readonly \cap FSAccess_all_dir
      [] src = "LANDLOCK_SANDBOX_RO_PATHS" -> FSAccess_readonly
      [] src = "LANDLOCK_SANDBOX_RW_PATHS" -> FSAccess_all

\* the sources in the order __main__ accumulates them
Sources ==
    <<"READONLY_GLOBAL_PATHS", "READWRITE_GLOBAL_PATHS", "LANDLOCK_SANDBOX_RO_DIRS",
      "LANDLOCK_SANDBOX_RO_PATHS", "LANDLOCK_SANDBOX_RW_PATHS">>

PathVars ==
    {"LANDLOCK_SANDBOX_RO_DIRS", "LANDLOCK_SANDBOX_RO_PATHS", "LANDLOCK_SANDBOX_RW_PATHS"}

\* an uncaught exception: traceback on stderr, exit status 1
Raise(r, err) ==
    /\ stderr' = [stderr EXCEPT ![r] = Append(err, <<"Traceback">>)]
    /\ exitStatus' = [exitStatus EXCEPT ![r] = 1]
    /\ pc' = [pc EXCEPT ![r] = "exited"]

\* lines 49-52; the second run starts once the first has ended
Start(r) ==
    /\ pc[r] = "start"
    /\ r = "second" => pc["first"] \in Terminal
    /\ debug' = [debug EXCEPT ![r] =
                    Lower(EnvironGet(debugEnv[r], DebugName, <<"f", "a", "l", "s", "e">>))
                        \in TrueTokens]
    /\ rules' = [rules EXCEPT ![r] = Ruleset]
    /\ pc' = [pc EXCEPT ![r] = "ro_global"]
    /\ UNCHANGED <<inputVars, stderr, sandbox, applyCalls, exitStatus, execd,
                   sourceEnd, pvVars>>

\* mutant: a candidate that does not exist raises
Accumulate_fatalMissing(r, here, src, paths, next) ==
    /\ pc[r] = here
    /\ IF \E i \in 1..Len(paths) : paths[i] \notin fs
       THEN /\ Raise(r, stderr[r])
            /\ UNCHANGED <<rules, sourceEnd>>
       ELSE LET res == AddRules(rules[r], paths, AccessOf(src), debug[r], stderr[r]) IN
            /\ rules' = [rules EXCEPT ![r] = res.rules]
            /\ stderr' = [stderr EXCEPT ![r] = res.err]
            /\ sourceEnd' = [sourceEnd EXCEPT ![r] = Append(@, Len(res.rules))]
            /\ pc' = [pc EXCEPT ![r] = next]
            /\ UNCHANGED exitStatus
    /\ UNCHANGED <<inputVars, debug, sandbox, applyCalls, execd, pvVars>>

\* one add_rules call of __main__ on the candidate list paths
Accumulate(r, here, src, paths, next) ==
    /\ pc[r] = here
    /\ LET res == AddRules(rules[r], paths, AccessOf(src), debug[r], stderr[r]) IN
        /\ rules' = [rules EXCEPT ![r] = res.rules]
        /\ stderr' = [stderr EXCEPT ![r] = res.err]
        /\ sourceEnd' = [sourceEnd EXCEPT ![r] = Append(@, Len(res.rules))]
    /\ pc' = [pc EXCEPT ![r] = next]
    /\ UNCHANGED <<inputVars, debug, sandbox, applyCalls, exitStatus, execd, pvVars>>

\* line 54
AddRoGlobal(r) ==
    \E order \in ReadonlyGlobalOrders :
        Accumulate(r, "ro_global", "READONLY_GLOBAL_PATHS", order, "rw_global")

\* line 55
AddRwGlobal(r) ==
    \E order \in ReadwriteGlobalOrders :
        Accumulate(r, "rw_global", "READWRITE_GLOBAL_PATHS", order, "ro_dirs")

\* line 56
AddRoDirs(r) ==
    Accumulate(r, "ro_dirs", "LANDLOCK_SANDBOX_RO_DIRS",
               read_paths_envvar(pathEnv, "LANDLOCK_SANDBOX_RO_DIRS"), "ro_paths")

\* line 57
AddRoPaths(r) ==
    Accumulate(r, "ro_paths", "LANDLOCK_SANDBOX_RO_PATHS",
               read_paths_envvar(pathEnv, "LANDLOCK_SANDBOX_RO_PATHS"), "rw_paths")

\* line 58
AddRwPaths(r) ==
    Accumulate(r, "rw_paths", "LANDLOCK_SANDBOX_RW_PATHS",
               read_paths_envvar(pathEnv, "LANDLOCK_SANDBOX_RW_PATHS"), "apply")

\* mutant: a failed commit is swallowed and the run goes on unsandboxed
Apply_failOpen(r) ==
    /\ pc[r] = "apply"
    /\ applyCalls' = [applyCalls EXCEPT ![r] = @ + 1]
    /\ sandbox' = [sandbox EXCEPT ![r] = IF ApplyRaises THEN @ ELSE "Committed"]
    /\ pc' = [pc EXCEPT ![r] = "check_argv"]
    /\ UNCHANGED <<inputVars, debug, rules, stderr, exitStatus, execd, sourceEnd, pvVars>>

\* mutant: a failed commit is tried again
Apply_retry(r) ==
    /\ pc[r] = "apply"
    /\ applyCalls[r] < 3
    /\ applyCalls' = [applyCalls EXCEPT ![r] = @ + 1]
    /\ sandbox' = [sandbox EXCEPT ![r] = IF ApplyRaises THEN @ ELSE "Committed"]
    /\ pc' = [pc EXCEPT ![r] = IF ApplyRaises THEN "apply" ELSE "check_argv"]
    /\ UNCHANGED <<inputVars, debug, rules, stderr, exitStatus, execd, sourceEnd, pvVars>>

\* line 60: rules.apply() installs the ruleset, or raises when the kernel refuses
Apply(r) ==
    /\ pc[r] = "apply"
    /\ applyCalls' = [applyCalls EXCEPT ![r] = @ + 1]
    /\ IF ApplyRaises
       THEN /\ Raise(r, stderr[r])
            /\ UNCHANGED sandbox
       ELSE /\ sandbox' = [sandbox EXCEPT ![r] = "Committed"]
            /\ pc' = [pc EXCEPT ![r] = "check_argv"]
            /\ UNCHANGED <<stderr, exitStatus>>
    /\ UNCHANGED <<inputVars, debug, rules, execd, sourceEnd, pvVars>>

\* mutant: the read-write list is (also) accumulated after the commit
CheckArgv_lateRules(r) ==
    /\ pc[r] = "check_argv"
    /\ rules' = [rules EXCEPT ![r] =
                    AddRules(@, read_paths_envvar(pathEnv, "LANDLOCK_SANDBOX_RW_PATHS"),
                             FSAccess_all, debug[r], stderr[r]).rules]
    /\ IF Len(argv) < 2
       THEN /\ stderr' = [stderr EXCEPT ![r] =
                             Append(@, <<"missing delegate executable invocation">>)]
            /\ exitStatus' = [exitStatus EXCEPT ![r] = 1]
            /\ pc' = [pc EXCEPT ![r] = "exited"]
       ELSE /\ pc' = [pc EXCEPT ![r] = "exec"]
            /\ UNCHANGED <<stderr, exitStatus>>
    /\ UNCHANGED <<inputVars, debug, sandbox, applyCalls, execd, sourceEnd, pvVars>>

\* lines 62-64
CheckArgv(r) ==
    /\ pc[r] = "check_argv"
    /\ IF Len(argv) < 2
       THEN /\ stderr' = [stderr EXCEPT ![r] =
                             Append(@, <<"missing delegate executable invocation">>)]
            /\ exitStatus' = [exitStatus EXCEPT ![r] = 1]
            /\ pc' = [pc EXCEPT ![r] = "exited"]
       ELSE /\ pc' = [pc EXCEPT ![r] = "exec"]
            /\ UNCHANGED <<stderr, exitStatus>>
    /\ UNCHANGED <<inputVars, debug, rules, sandbox, applyCalls, execd, sourceEnd, pvVars>>

\* lines 66-67: os.execvp replaces the process image, or raises
Exec(r) ==
    /\ pc[r] = "exec"
    /\ execd' = [execd EXCEPT ![r] = <<argv[2], Tail(argv)>>]
    /\ LET err == IF debug[r] THEN Append(stderr[r], <<"executing", Tail(argv)>>)
                              ELSE stderr[r] IN
       IF progFound
       THEN /\ stderr' = [stderr EXCEPT ![r] = err]
            /\ pc' = [pc EXCEPT ![r] = "delegate"]
            /\ UNCHANGED exitStatus
       ELSE Raise(r, err)
    /\ UNCHANGED <<inputVars, debug, rules, sandbox, applyCalls, sourceEnd, pvVars>>

----------------------------------------------------------------------------
(* Inputs of a run *)

A == <<"a">>

\* the paths whose existence varies; every other path does not exist
FsUniverse == {USR, LIB, TMP, A}

\* the value a path-list variable has when it is set: "a:/usr:a", a list with
\* a repeated entry and a built-in path
PathListValues == {A \o <<":">> \o USR \o <<":">> \o A}

PathEnvs == UNION {[D -> PathListValues] : D \in SUBSET PathVars}

DebugEnvs == {<<>>, (DebugName :> <<"T">>)}

\* sys.argv with n trailing arguments
Argv(n) == [i \in 1..(n + 1) |-> IF i = 1 THEN "sandbox_wrapper.py" ELSE <<"arg", i - 1>>]

\* The two runs get the same inputs, except for LANDLOCK_SANDBOX_DEBUG, which
\* is set in one of them and absent in the other.
Init ==
    /\ fs \in SUBSET FsUniverse
    /\ pathEnv \in PathEnvs
    /\ debugEnv \in {d \in [Runs -> DebugEnvs] : d["first"] # d["second"]}
    /\ argv \in {Argv(n) : n \in 0..MaxArgs}
    /\ kernelOk \in BOOLEAN
    /\ progFound \in BOOLEAN
    /\ pc = [r \in Runs |-> "start"]
    /\ debug = [r \in Runs |-> FALSE]
    /\ rules = [r \in Runs |-> <<>>]
    /\ stderr = [r \in Runs |-> <<>>]
    /\ sandbox = [r \in Runs |-> "Uncommitted"]
    /\ applyCalls = [r \in Runs |-> 0]
    /\ exitStatus = [r \in Runs |-> 0]
    /\ execd = [r \in Runs |-> <<>>]
    /\ sourceEnd = [r \in Runs |-> <<>>]
    /\ pvEnviron = <<>>
    /\ pvResult = <<>>
    /\ pvPc = "input"

Next ==
    \E r \in Runs :
        \/ Start(r)
        \/ AddRoGlobal(r)
        \/ AddRwGlobal(r)
        \/ AddRoDirs(r)
        \/ AddRoPaths(r)
        \/ AddRwPaths(r)
        \/ Apply(r)
        \/ CheckArgv(r)
        \/ Exec(r)

Spec == Init /\ [][Next]_vars

----------------------------------------------------------------------------
(* Vocabulary of the properties *)

Range(f) == {f[i] : i \in DOMAIN f}

\* the rules the k-th add_rules call of run r added
Segment(r, k) ==
    SubSeq(rules[r], (IF k = 1 THEN 0 ELSE sourceEnd[r][k - 1]) + 1, sourceEnd[r][k])

\* the candidate list handed to the k-th add_rules call, as a set
CandidateSet(k) ==
    CASE k = 1 -> READONLY_GLOBAL_PATHS
      [] k = 2 -> READWRITE_GLOBAL_PATHS
      [] OTHER -> Range(read_paths_envvar(pathEnv, Sources[k]))

\* how many candidates of the k-th call name an existing path
ExistingCount(k) ==
    IF k <= 2 THEN Cardinality(CandidateSet(k) \cap fs)
    ELSE Len(SelectSeq(read_paths_envvar(pathEnv, Sources[k]), LAMBDA p : p \in fs))

AllCandidates == UNION {CandidateSet(k) : k \in 1..Len(Sources)}

\* Start = 0, RulesAccumulated = 1, PolicyCommitted = 2, DelegateRunning = 3
Phase(r) ==
    IF pc[r] = "delegate" THEN 3
    ELSE IF sandbox[r] = "Committed" THEN 2
    ELSE IF Len(sourceEnd[r]) = Len(Sources) THEN 1
    ELSE 0

----------------------------------------------------------------------------
(* Properties *)

\* C1: a run with no trailing argument ends with status 1 and a diagnostic on
\* stderr, and no sandbox rules are installed when it exits: the commit has
\* not been performed.  (Read in the claim's favour: any diagnostic counts,
\* and a commit that was attempted and failed installs nothing.)
C1_NoArgsExitsBeforeCommit ==
    \A r \in Runs :
        (Len(argv) = 1 /\ pc[r] = "exited") =>
            /\ exitStatus[r] = 1
            /\ stderr[r] # <<>>
            /\ sandbox[r] = "Uncommitted"

\* C2: fail-closed commit: a run whose rules.apply() failed has ended with a
\* nonzero status without calling os.execvp, and os.execvp is only ever reached
\* or called in a run whose commit succeeded.
C2_FailClosed ==
    \A r \in Runs :
        /\ (applyCalls[r] >= 1 /\ sandbox[r] = "Uncommitted") =>
              (pc[r] = "exited" /\ exitStatus[r] # 0 /\ execd[r] = <<>>)
        /\ (execd[r] # <<>> \/ pc[r] \in {"exec", "delegate"}) =>
              (sandbox[r] = "Committed" /\ applyCalls[r] = 1)

C2_Witness ==
    \E r \in Runs :
        /\ applyCalls[r] = 1
        /\ sandbox[r] = "Uncommitted"
        /\ pc[r] = "exited"
        /\ Len(argv) >= 2

\* C3: after an add_rules call the rules it added name exactly the candidates
\* that exist, each with the access passed to the call, and no path that does
\* not exist; a second run on a fresh ruleset against the same filesystem and
\* candidates adds the same rules (in the same order for a candidate list).
C3_AccumulateExisting ==
    /\ \A r \in Runs : \A k \in 1..Len(sourceEnd[r]) :
          LET added == Segment(r, k)
              candidates == CandidateSet(k)
          IN  /\ \A p \in AllCandidates \cup fs :
                    (\E i \in 1..Len(added) : added[i].path = p)
                        <=> (p \in candidates /\ p \in fs)
              /\ \A i \in 1..Len(added) : added[i].access = AccessOf(Sources[k])
              /\ Len(added) = ExistingCount(k)
    /\ \A k \in 1..Len(sourceEnd["second"]) :
          /\ Range(Segment("first", k)) = Range(Segment("second", k))
          /\ k > 2 => Segment("first", k) = Segment("second", k)

C3_Witness ==
    \E k \in 3..Len(sourceEnd["second"]) :
        /\ Segment("second", k) # <<>>
        /\ CandidateSet(k) \ fs # {}

\* C4: read_paths_envvar yields, in order, exactly one path per non-empty entry
\* of the colon-delimited value, and an empty list for an empty or absent value.
C4_OnePathPerNonEmptyEntry ==
    pvPc = "read" =>
        LET value == EnvironGet(pvEnviron, PvName, <<>>)
            entries == SelectSeq(Split(value, ":"), LAMBDA e : e # <<>>)
        IN  pvResult = [i \in 1..Len(entries) |-> PathOf(entries[i])]

\* C5: a candidate that does not exist never ends the run: a run is never ended
\* while it accumulates, and every run that has ended has gone through all five
\* add_rules calls and has attempted the commit with the rules that survived.
C5_MissingPathNotFatal ==
    \A r \in Runs :
        /\ pc[r] \in {"ro_global", "rw_global", "ro_dirs", "ro_paths", "rw_paths", "apply"}
              => (exitStatus[r] = 0 /\ applyCalls[r] = 0)
        /\ pc[r] \in Terminal =>
              /\ Len(sourceEnd[r]) = Len(Sources)
              /\ applyCalls[r] = 1
              /\ \A i \in 1..Len(rules[r]) : rules[r][i].path \in fs

C5_Witness ==
    \E r \in Runs :
        /\ fs = {}
        /\ DOMAIN pathEnv = PathVars
        /\ sandbox[r] = "Committed"
        /\ rules[r] = <<>>

\* C6: the flow never moves backward through Start, RulesAccumulated,
\* PolicyCommitted, DelegateRunning; rules are added only before the commit is
\* attempted; os.execvp is called only after all five sources were accumulated
\* and the commit succeeded.
C6_LinearFlow ==
    [][\A r \in Runs :
          /\ Phase(r)' >= Phase(r)
          /\ applyCalls[r] >= 1 => rules'[r] = rules[r]
          /\ rules'[r] # rules[r] => Phase(r) = 0
          /\ execd'[r] # <<>> =>
                (sandbox[r] = "Committed" /\ Len(sourceEnd[r]) = Len(Sources))
          /\ (pc'[r] = "delegate" /\ pc[r] # "delegate") =>
                (Phase(r) = 2 /\ execd'[r] # <<>>)]_vars

C6_Witness ==
    \E r \in Runs : pc[r] = "delegate" /\ rules[r] # <<>>

\* C7: rules.apply() is called at most once in a run, and once the sandbox
\* state is Committed it stays Committed and apply is not called again,
\* whatever way the run ends.
C7_CommitAtMostOnce ==
    [][\A r \in Runs :
          /\ applyCalls'[r] <= 1
          /\ sandbox[r] = "Committed" =>
                (sandbox'[r] = "Committed" /\ applyCalls'[r] = applyCalls[r])
          /\ sandbox'[r] # sandbox[r] => (applyCalls[r] = 0 /\ applyCalls'[r] = 1)]_vars

C7_Witness ==
    \E r \in Runs :
        /\ applyCalls[r] = 1
        /\ sandbox[r] = "Committed"
        /\ pc[r] = "exited"
        /\ execd[r] # <<>>

C9_AppendOnlyKeepsConflicts ==
    [][\A r \in Runs :
          /\ Len(rules'[r]) >= Len(rules[r])
          /\ SubSeq(rules'[r], 1, Len(rules[r])) = rules[r]
          /\ Len(sourceEnd'[r]) = Len(Sources) =>
                /\ \A k \in 1..Len(Sources) : \A p \in CandidateSet(k) \cap fs :
                      [path |-> p, access |-> AccessOf(Sources[k])] \in Range(rules'[r])
                /\ Len(rules'[r]) =
                      ExistingCount(1) + ExistingCount(2) + ExistingCount(3)
                          + ExistingCount(4) + ExistingCount(5)]_vars

C9_Witness ==
    \E r \in Runs :
        /\ sandbox[r] = "Committed"
        /\ \E i, j \in 1..Len(rules[r]) :
              /\ rules[r][i].path = rules[r][j].path
              /\ rules[r][i].access # rules[r][j].access
        /\ \E i, j \in 1..Len(rules[r]) : i # j /\ rules[r][i] = rules[r][j]

\* C10: two runs on the same filesystem, path lists and argument vector end
\* with the same rules, the same sandbox state, the same exit and the same
\* program and argument vector handed to os.execvp (all trailing arguments, in
\* order), whatever their debug values.
C10_DebugOnlyDiagnostics ==
    (\A r \in Runs : pc[r] \in Terminal) =>
        /\ Range(rules["first"]) = Range(rules["second"])
        /\ Len(rules["first"]) = Len(rules["second"])
        /\ \A k \in 3..Len(Sources) : Segment("first", k) = Segment("second", k)
        /\ sandbox["first"] = sandbox["second"]
        /\ pc["first"] = pc["second"]
        /\ exitStatus["first"] = exitStatus["second"]
        /\ execd["first"] = execd["second"]
        /\ \A r \in Runs : execd[r] # <<>> =>
              /\ execd[r][1] = argv[2]
              /\ execd[r][2] = [i \in 1..(Len(argv) - 1) |-> argv[i + 1]]

C10_Witness ==
    /\ \A r \in Runs : pc[r] = "delegate"
    /\ debug["first"] # debug["second"]
    /\ stderr["first"] # stderr["second"]
    /\ Len(argv) >= 3
    /\ rules["first"] # <<>>
    /\ \E i \in 1..Len(stderr["first"]) :
          stderr["first"][i][1] = "skipping" /\ stderr["first"][i][2] = A

====
